---- MODULE Spec2Model ----
(***************************************************************************)
(* State-machine model of the rtcd RTC server core: the message pump       *)
(* (Server.msgReader), a session's signaling (sendOffer, addTrack,         *)
(* removeTrack, signaling, hasSignalingConflict) and the call-level        *)
(* screen-sharing election and mute handling reached from the pump.        *)
(***************************************************************************)
EXTENDS Integers, Sequences, FiniteSets, TLC

NULL == "null"

\* ---------------------------------------------------------------- bounds
\* Capacity of the server's sendCh and receiveCh (msgChSize = 256 in the
\* source, scaled down so that a full channel is reachable).
MsgChCap == 1
\* Capacity of a session's sdpOfferInCh / sdpAnswerInCh (signalChSize = 20 in
\* the source, scaled down).
SignalChCap == 1
\* Number of Send calls the embedder makes in a run of Spec.
MaxSends == 2
\* Number of Send calls the embedder makes in a run of SpecCall.
MaxCallSends == 4
\* Number of addTrack / removeTrack calls made on a session in a run.
MaxOps == 2

\* Largest sampling window of a RateMonitor, in clock ticks.
MaxSamplingSize == 2
\* Last reading of the RateMonitor's clock in a run.
MaxClock == 6
\* Number of Send calls the embedder makes in a run of SpecPump.
MaxPumpSends == 3
\* Number of addSession calls in a run.
MaxAddSessions == 4
\* Number of ReadRTCP results a sender produces in a run.
MaxRTCPReads == 3
\* Number of PushSample calls in a run.
MaxPushes == 5

\* ---------------------------------------------------------------- domains
Sessions == {"s1", "s2"}
\* The session whose signaling is driven in Spec (sessions do not share any
\* signaling state; the second one is driven in SpecCall).
SigSessions == {"s1"}

Tracks == {"screenA", "screenB", "voiceA"}
Kind(t) == IF t \in {"screenA", "screenB"} THEN "video" ELSE "audio"
Kinds == {"audio", "video"}

\* ---------------------------------------------------------------- state
VARIABLES
  sendCh,        \* Server.sendCh: inbound messages, embedder -> pump
  receiveCh,     \* Server.receiveCh: outbound messages (sdpOutCh of a session)
  pump,          \* msgReader: [pc, alive, sid, sdp]
  sess,          \* per session: the session struct's fields
  pc,            \* per session: rtcConn, the peer connection
  trk,           \* per session: the addTrack / removeTrack call in progress
  sig,           \* per session: the remote-offer handler (signaling)
  metrics,       \* call.metrics: outbound RTP tracks per kind
  screenSession, \* call: the sessions recorded as screen session
  nSends,        \* Send calls made so far
  sendErr,       \* what the last Send call returned
  nOps,          \* addTrack / removeTrack calls made so far
  rm,            \* a RateMonitor and the clock it reads
  auth,          \* the auth Service: its store and the last call's result
  srv,           \* Server.Stop: the registered sessions, drainCh, what is closed
  rtcp,          \* a subscriber's RTP sender, its RTCP reader, the presenter
  reg            \* Server.groups / Server.sessions and the addSession calls

\* The components that the signaling and call specifications leave alone.
auxVars == <<rm, auth, srv, rtcp, reg>>

vars == <<sendCh, receiveCh, pump, sess, pc, trk, sig, metrics, screenSession,
          nSends, sendErr, nOps, auxVars>>

\* The server core: what the component specifications leave alone.
coreVars == <<sendCh, receiveCh, pump, sess, pc, trk, sig, metrics,
              screenSession, nSends, sendErr, nOps>>

\* ------------------------------------------------- the peer connection
\* webrtc.PeerConnection as the session code uses it: the signaling state
\* machine (Stable / HaveLocalOffer / HaveRemoteOffer), the pending and
\* current descriptions, and the senders.

\* An SDP payload as the pump finds it in Message.Data.  json.Unmarshal into a
\* webrtc.SessionDescription fails on "garbage"; otherwise it yields the type.
\* "offerBad" / "answerBad" unmarshal but hold an SDP body the peer
\* connection rejects.
SDPPayloads == {"offer", "offerBad", "answer", "answerBad", "pranswer", "garbage"}
ParseSDP(data) ==
  [ ok   |-> data # "garbage",
    type |-> CASE data \in {"offer", "offerBad"}   -> "offer"
               [] data \in {"answer", "answerBad"} -> "answer"
               [] OTHER                            -> "pranswer" ]
SdpWellFormed(data) == data \in {"offer", "answer"}

NewPC ==
  [ sigState      |-> "stable",
    pendingLocal  |-> NULL,
    pendingRemote |-> NULL,
    currentLocal  |-> NULL,
    currentRemote |-> NULL,
    senders       |-> << >> ]

\* rtcConn.SetLocalDescription.  reoffer: whether the library accepts a new
\* local offer while one is pending (have-local-offer -> have-local-offer).
SetLocalDescription(p, type, reoffer) ==
  CASE type = "offer" /\ (p.sigState = "stable"
                          \/ (p.sigState = "have-local-offer" /\ reoffer)) ->
         [ ok |-> TRUE,
           pc |-> [p EXCEPT !.sigState = "have-local-offer",
                            !.pendingLocal = "offer"] ]
    [] type = "answer" /\ p.sigState = "have-remote-offer" ->
         [ ok |-> TRUE,
           pc |-> [p EXCEPT !.sigState = "stable",
                            !.currentLocal = "answer",
                            !.currentRemote = p.pendingRemote,
                            !.pendingLocal = NULL,
                            !.pendingRemote = NULL] ]
    [] OTHER -> [ ok |-> FALSE, pc |-> p ]

\* rtcConn.SetRemoteDescription of a parsed description.
SetRemoteDescription(p, data) ==
  CASE ~SdpWellFormed(data) -> [ ok |-> FALSE, pc |-> p ]
    [] ParseSDP(data).type = "offer" /\ p.sigState = "stable" ->
         [ ok |-> TRUE,
           pc |-> [p EXCEPT !.sigState = "have-remote-offer",
                            !.pendingRemote = "offer"] ]
    [] ParseSDP(data).type = "answer" /\ p.sigState = "have-local-offer" ->
         [ ok |-> TRUE,
           pc |-> [p EXCEPT !.sigState = "stable",
                            !.currentRemote = "answer",
                            !.currentLocal = p.pendingLocal,
                            !.pendingLocal = NULL,
                            !.pendingRemote = NULL] ]
    [] OTHER -> [ ok |-> FALSE, pc |-> p ]

\* rtcConn.CreateAnswer: needs a pending remote offer.
CreateAnswerOk(p) == p.sigState = "have-remote-offer"

\* rtcConn.GetSenders() filtered by sender.Track() == track.
SendersOf(p, t) == { i \in DOMAIN p.senders : p.senders[i].track = t }

\* rtcConn.AddTrack: a sender of the track's kind that carries no track is
\* reused, otherwise a new sender is appended.  Yields the sender's index.
AddTrack(p, t) ==
  LET free == { i \in DOMAIN p.senders :
                  p.senders[i].kind = Kind(t) /\ p.senders[i].track = NULL }
  IN IF free # {}
       THEN LET i == CHOOSE j \in free : \A k \in free : j <= k
            IN [ sender |-> i,
                 pc |-> [p EXCEPT !.senders[i].track = t] ]
       ELSE [ sender |-> Len(p.senders) + 1,
              pc |-> [p EXCEPT !.senders =
                        Append(p.senders, [kind |-> Kind(t), track |-> t])] ]

\* rtcConn.RemoveTrack(sender) and sender.ReplaceTrack(nil): the sender stays
\* on the connection and carries no track.
ClearSender(p, i) == [p EXCEPT !.senders[i].track = NULL]

\* ------------------------------------------------------------- sessions
\* The session struct after construction; voice: whether an outbound voice
\* track exists, vad: whether InitVAD installed a monitor.
NewSession(voice, vad) ==
  [ makingOffer          |-> FALSE,
    screenTrackSender    |-> 0,        \* index into rtcConn's senders, 0 = nil
    sdpOfferInCh         |-> << >>,
    sdpAnswerInCh        |-> << >>,
    iceInCh              |-> << >>,
    closed               |-> FALSE,    \* closeCh is closed
    outVoiceTrack        |-> IF voice THEN "voiceOut" ELSE NULL,
    outVoiceTrackEnabled |-> FALSE,
    screenStreamID       |-> "",
    vadMonitor           |-> IF vad THEN "active" ELSE NULL ]

\* fresh: how many of the answers in sdpAnswerInCh the pump wrote after the
\* call emitted its offer (the others were in the channel before).
IdleCall ==
  [ pc |-> "idle", op |-> NULL, track |-> NULL, sender |-> 0, err |-> NULL,
    pre |-> NULL, fresh |-> 0 ]

IdlePump == [ pc |-> "recv", alive |-> TRUE, sid |-> NULL, sdp |-> NULL ]
IdleSig == [ pc |-> "idle", offer |-> NULL ]
ZeroMetrics == [ k \in Kinds |-> 0 ]

\* What an addTrack / removeTrack call finds when it starts.
Snapshot(s) ==
  [ senders |-> pc[s].senders,
    screenTrackSender |-> sess[s].screenTrackSender,
    metrics |-> metrics ]

\* Mutant: the conflict check looks at makingOffer alone.
hasSignalingConflictFlagOnly(s) == sess[s].makingOffer

\* session.hasSignalingConflict (rtcConn is never nil for a registered session)
hasSignalingConflict(s) ==
  sess[s].makingOffer \/ pc[s].sigState # "stable"

\* ------------------------------------------------------ the RateMonitor
\* rate.go.  Time is counted in ticks of the injected clock now(); sequences
\* are 1-based, so slot i of the Go slices is element i + 1.

\* NewRateMonitor, lines 23-38 (samplingSize > 0).
NewRateMonitor(samplingSize) ==
  [ samples      |-> << >>,
    timestamps   |-> << >>,
    samplesPtr   |-> 0,
    samplingSize |-> samplingSize,
    filled       |-> FALSE ]

\* getSamplesDuration, lines 69-78.
getSamplesDuration(m) ==
  IF Len(m.timestamps) = 0 THEN 0
  ELSE LET lastTS  == m.timestamps[((m.samplesPtr - 1) % Len(m.timestamps)) + 1]
           firstTS == m.timestamps[(m.samplesPtr % Len(m.timestamps)) + 1]
       IN lastTS - firstTS

\* Mutant: the monitor is filled after one sampling window.
PushSampleFillsEarly(m, size, now) ==
  IF ~m.filled /\ getSamplesDuration(m) < m.samplingSize * 2
    THEN LET a == [m EXCEPT !.samples = Append(@, size),
                            !.timestamps = Append(@, now),
                            !.samplesPtr = @ + 1]
         IN [a EXCEPT !.filled = getSamplesDuration(a) >= m.samplingSize]
    ELSE [m EXCEPT !.samples[(m.samplesPtr % Len(m.samples)) + 1] = size,
                   !.timestamps[(m.samplesPtr % Len(m.timestamps)) + 1] = now,
                   !.samplesPtr = @ + 1]

\* Mutant: once filled, a push overwrites the newest slot.
PushSampleOverwritesNewest(m, size, now) ==
  IF ~m.filled /\ getSamplesDuration(m) < m.samplingSize * 2
    THEN LET a == [m EXCEPT !.samples = Append(@, size),
                            !.timestamps = Append(@, now),
                            !.samplesPtr = @ + 1]
         IN [a EXCEPT !.filled = getSamplesDuration(a) >= m.samplingSize * 2]
    ELSE [m EXCEPT
            !.samples[((m.samplesPtr - 1) % Len(m.samples)) + 1] = size,
            !.timestamps[((m.samplesPtr - 1) % Len(m.timestamps)) + 1] = now,
            !.samplesPtr = @ + 1]

\* PushSample, lines 40-60, with now the reading of the clock.
PushSample(m, size, now) ==
  IF ~m.filled /\ getSamplesDuration(m) < m.samplingSize * 2
    THEN LET a == [m EXCEPT !.samples = Append(@, size),
                            !.timestamps = Append(@, now),
                            !.samplesPtr = @ + 1]
         IN [a EXCEPT !.filled = getSamplesDuration(a) >= m.samplingSize * 2]
    ELSE [m EXCEPT !.samples[(m.samplesPtr % Len(m.samples)) + 1] = size,
                   !.timestamps[(m.samplesPtr % Len(m.timestamps)) + 1] = now,
                   !.samplesPtr = @ + 1]

\* The loop of GetRate, lines 92-99: from slot i downwards, the bytes added up
\* and the duration last computed.
RECURSIVE rateLoop(_, _, _, _)
rateLoop(m, now, i, totalBytes) ==
  LET samplesDuration == now - m.timestamps[(i % Len(m.timestamps)) + 1]
      total == totalBytes + m.samples[(i % Len(m.samples)) + 1]
  IN IF samplesDuration >= m.samplingSize
          \/ i - 1 < m.samplesPtr - Len(m.samples)
       THEN [ totalBytes |-> total, samplesDuration |-> samplesDuration ]
       ELSE rateLoop(m, now, i - 1, total)

\* math.Round of a / b for a >= 0, b > 0: halves round away from zero.
Round(a, b) == (2 * a + b) \div (2 * b)

\* int(math.Round(x / 0 * 8)): the conversion of +Inf or NaN to int is
\* implementation-dependent in Go; these are the values the builds produce.
IntOfNonFinite == {"MinInt64", "MaxInt64", "0"}

\* Mutant: every stored sample is added up, whatever its age.
GetRateWholeBuffer(m, now) ==
  IF ~m.filled THEN { [ rate |-> -1, span |-> 0, impl |-> NULL ] }
  ELSE LET r == rateLoop([m EXCEPT !.samplingSize = now + 1], now,
                         m.samplesPtr - 1, 0) IN
       IF r.samplesDuration = 0
         THEN { [ rate |-> 0, span |-> 0, impl |-> v ] : v \in IntOfNonFinite }
         ELSE { [ rate |-> Round(r.totalBytes * 8, r.samplesDuration),
                  span |-> r.samplesDuration, impl |-> NULL ] }

\* GetRate, lines 80-104: the set of results the call can return (one result,
\* except where the division is by zero: then impl names the value and rate
\* is not meaningful).
GetRate(m, now) ==
  IF ~m.filled THEN { [ rate |-> -1, span |-> 0, impl |-> NULL ] }
  ELSE LET r == rateLoop(m, now, m.samplesPtr - 1, 0) IN
       IF r.samplesDuration = 0
         THEN { [ rate |-> 0, span |-> 0, impl |-> v ] : v \in IntOfNonFinite }
         ELSE { [ rate |-> Round(r.totalBytes * 8, r.samplesDuration),
                  span |-> r.samplesDuration, impl |-> NULL ] }

\* What the bookkeeping holds before the first GetRate call.
NoResult == [ rate |-> 0, span |-> 0, impl |-> "none" ]

\* A monitor nobody has pushed to, its clock, and the bookkeeping of a run:
\* the clock readings of the first and last push, the number of pushes, the
\* last call made and what GetRate returned.
NewRM(samplingSize) ==
  [ m         |-> NewRateMonitor(samplingSize),
    clock     |-> 0,
    nPush     |-> 0,
    firstPush |-> 0,
    lastPush  |-> 0,
    op        |-> NULL,
    result    |-> NoResult ]

\* ---------------------------------------------------- the auth service
\* auth/service.go over store/bitcask.go.  An error value is the message's
\* kind and the sentinel it wraps (%w), if any; errors.Is looks at the latter.
NoErr == [ msg |-> "", wraps |-> "" ]
ErrNotFound == [ msg |-> "not found", wraps |-> "ErrNotFound" ]
ErrEmptyKey == [ msg |-> "empty key", wraps |-> "ErrEmptyKey" ]
ErrorsIs(err, target) == err.wraps = target.wraps /\ err.wraps # ""
\* fmt.Errorf("<msg>: %w", err) and fmt.Errorf("<msg>").
Wrap(msg, err) == [ msg |-> msg, wraps |-> err.wraps ]
Errorf(msg) == [ msg |-> msg, wraps |-> "" ]

\* A store without keys.
EmptyStore == [ k \in {} |-> "" ]

\* bitcaskStore.Get, lines 41-52.
storeGet(db, key) ==
  CASE key = "" -> [ val |-> "", err |-> ErrEmptyKey ]
    [] key \notin DOMAIN db -> [ val |-> "", err |-> ErrNotFound ]
    [] OTHER -> [ val |-> db[key], err |-> NoErr ]

\* bitcaskStore.Set, lines 30-39.
storeSet(db, key, value) ==
  IF key = "" THEN [ db |-> db, err |-> ErrEmptyKey ]
  ELSE [ db  |-> [ k \in DOMAIN db \cup {key} |->
                     IF k = key THEN value ELSE db[k] ],
         err |-> NoErr ]

\* bitcaskStore.Delete, lines 54-63.
storeDelete(db, key) ==
  IF key = "" THEN [ db |-> db, err |-> ErrEmptyKey ]
  ELSE [ db  |-> [ k \in DOMAIN db \ {key} |-> db[k] ],
         err |-> NoErr ]

\* hashKey: the stored form of a key (never the key itself).
hashKey(authKey) ==
  CASE authKey = "k1" -> "hash-of-k1"
    [] authKey = "k2" -> "hash-of-k2"
    [] OTHER -> "hash-of-other"

\* compareKeyHash: nil when the hash is the hash of the key.
compareKeyHash(hash, authKey) ==
  IF hash = hashKey(authKey) THEN NoErr ELSE Errorf("mismatch")

\* Mutant: Authenticate looks the id up and does not compare the key.
AuthenticateSkipsCompare(db, id, authKey) ==
  LET g == storeGet(db, id) IN
  IF g.err # NoErr THEN Wrap("authentication failed", g.err) ELSE NoErr

\* Service.Authenticate, lines 28-37: the error returned.
Authenticate(db, id, authKey) ==
  LET g == storeGet(db, id) IN
  CASE g.err # NoErr -> Wrap("authentication failed", g.err)
    [] compareKeyHash(g.val, authKey) # NoErr -> Errorf("authentication failed")
    [] OTHER -> NoErr

\* Mutant: Register stores the new key whatever the store holds for the id.
RegisterOverwrites(db, id, newKey, randOk) ==
  LET g == storeGet(db, id)
      w == storeSet(db, id, hashKey(newKey))
  IN CASE ~randOk ->
            [ db |-> db, key |-> "", err |-> Errorf("registration failed") ]
       [] w.err # NoErr ->
            [ db |-> db, key |-> "", err |-> Wrap("registration failed", w.err) ]
       [] OTHER -> [ db |-> w.db, key |-> newKey, err |-> NoErr ]

\* Service.Register, lines 39-61: the store afterwards, the key returned and
\* the error.  newKey is what newRandomString yields; randOk is false when
\* newRandomString or hashKey fails.
Register(db, id, newKey, randOk) ==
  LET g == storeGet(db, id)
      w == storeSet(db, id, hashKey(newKey))
  IN CASE g.err = NoErr ->
            [ db |-> db, key |-> "",
              err |-> Errorf("registration failed: already registered") ]
       [] ~ErrorsIs(g.err, ErrNotFound) ->
            [ db |-> db, key |-> "", err |-> Wrap("registration failed", g.err) ]
       [] ~randOk ->
            [ db |-> db, key |-> "", err |-> Errorf("registration failed") ]
       [] w.err # NoErr ->
            [ db |-> db, key |-> "", err |-> Wrap("registration failed", w.err) ]
       [] OTHER -> [ db |-> w.db, key |-> newKey, err |-> NoErr ]

\* Service.Unregister, lines 63-74: the store afterwards and the error.
Unregister(db, id) ==
  LET g == storeGet(db, id)
      d == storeDelete(db, id)
  IN CASE g.err # NoErr ->
            [ db |-> db, err |-> Wrap("unregister failed", g.err) ]
       [] d.err # NoErr ->
            [ db |-> db, err |-> Wrap("unregister failed", d.err) ]
       [] OTHER -> [ db |-> d.db, err |-> NoErr ]

\* The auth service over an empty store, before any call: the store, the
\* last call and its result, and the bookkeeping of a run (the key each id's
\* last successful Register returned, the ids unregistered since, the number
\* of calls).
NewService ==
  [ store |-> EmptyStore,
    op    |-> [ name |-> NULL, id |-> "", key |-> "", err |-> NoErr ],
    keys  |-> EmptyStore,
    gone  |-> {},
    n     |-> 0 ]

\* ------------------------------------------------------- Server.Stop
\* The server as Stop sees it: the registered sessions (Server.sessions),
\* Server.drainCh, the UDP mux, whether receiveCh / sendCh are closed, and
\* the Stop call: its position, its local drainCh and what it returned.
NewServer(sessions, mux) ==
  [ sessions  |-> sessions,
    drainCh   |-> "nil",      \* "nil", "open", "closed"
    udpMux    |-> mux,        \* "nil", "open", "closed"
    chClosed  |-> FALSE,      \* close(receiveCh); close(sendCh)
    stop      |-> "idle",     \* "idle", "wait", "mux", "channels", "returned"
    waited    |-> FALSE,      \* the call made a drain channel
    waitedOn  |-> {},         \* the sessions registered when Stop was called
    err       |-> NoErr ]

\* ------------------------------------------- the sender's RTCP reader
\* A subscriber's RTP sender with the RTCP packets it has yet to deliver,
\* handleSenderRTCP reading them, the call's screen session with its remote
\* screen tracks, and the RTCP packets written to the presenter's peer
\* connection.
NewRTCP(rid) ==
  [ rid           |-> rid,        \* sender.Track().RID()
    inbox         |-> << >>,      \* what sender.ReadRTCP() will return, in turn
    closed        |-> FALSE,      \* the sender was stopped: ReadRTCP fails
    reader        |-> "reading",  \* handleSenderRTCP: "reading", "returned"
    screenSession |-> "nil",      \* call.getScreenSession(): "nil" or a session
    remoteTracks  |-> {},         \* the RIDs the presenter holds a track for
    written       |-> << >>,      \* WriteRTCP calls on the presenter's rtcConn
    nRead         |-> 0 ]         \* ReadRTCP results produced so far

SimulcastLevelDefault == "default"

\* getRemoteScreenTrack, lines 116-125: the RID looked up in
\* remoteScreenTracks (the track, named by its RID, or "nil").
getRemoteScreenTrack(remoteTracks, rid) ==
  LET r == IF rid = "" THEN SimulcastLevelDefault ELSE rid IN
  IF r \in remoteTracks THEN r ELSE "nil"

\* TrackRemote.SSRC() of the presenter's remote screen track of a RID.
SSRCOf(track) == CASE track = "default" -> 1001
                   [] track = "low"     -> 1002
                   [] OTHER             -> 1003

\* handleSenderRTCP, lines 229-248: what one PLI does: the packets written so
\* far afterwards, and whether the reader goes on (it returns when there is
\* no screen session or no remote track for the sender's RID).
forwardPLI(r, written) ==
  LET screenTrack == getRemoteScreenTrack(r.remoteTracks, r.rid) IN
  IF r.screenSession = "nil" \/ screenTrack = "nil"
    THEN [ written |-> written, ok |-> FALSE ]
    ELSE [ written |-> Append(written,
                        [ to |-> r.screenSession, type |-> "PLI",
                          MediaSSRC |-> SSRCOf(screenTrack) ]),
           ok |-> TRUE ]

\* handleSenderRTCP, lines 228-249: the loop over the packets of one
\* ReadRTCP result.
RECURSIVE handlePkts(_, _, _)
handlePkts(r, pkts, written) ==
  IF pkts = << >> THEN [ written |-> written, ok |-> TRUE ]
  ELSE IF Head(pkts) = "PLI"
    THEN LET f == forwardPLI(r, written) IN
         IF f.ok THEN handlePkts(r, Tail(pkts), f.written) ELSE f
    ELSE handlePkts(r, Tail(pkts), written)

\* ------------------------------------- Server.groups / Server.sessions
\* The identifiers of the configurations given to addSession: each session
\* ID comes with its group and call; "" is a configuration that is not valid.
RegSessions == {"", "s1", "s2", "s3"}
RegCalls == {"c1", "c2"}

\* SessionConfig of a session ID.
Cfg(sid) ==
  [ SessionID |-> sid, GroupID |-> "g1",
    CallID |-> IF sid = "s3" THEN "c2" ELSE "c1" ]

\* No entry in Server.sessions.
NoCfg == [ SessionID |-> "", GroupID |-> "", CallID |-> "" ]

\* SessionConfig.IsValid.
CfgIsValid(cfg) ==
  cfg.SessionID # "" /\ cfg.GroupID # "" /\ cfg.CallID # ""

\* An addSession call: its position, the group and the call it holds (the
\* objects, by number; 0 is nil) and what it returned.
IdleAdd == [ pc |-> "idle", g |-> 0, c |-> 0, err |-> NoErr ]

\* The server's registry after construction.  Groups and calls are objects:
\* gobj[n] and cobj[n] are the n-th group and call ever made, and the maps
\* hold object numbers (0: no entry).
NewRegistry ==
  [ groups   |-> [ gid \in {"g1"} |-> 0 ],        \* Server.groups
    sessions |-> [ sid \in RegSessions |-> NoCfg ],  \* Server.sessions
    gobj     |-> << >>,    \* group objects: [id, calls: call ID -> call]
    cobj     |-> << >>,    \* call objects: [id, sessions]
    add      |-> [ sid \in RegSessions |-> IdleAdd ],
    live     |-> {},       \* sessions addSession returned, not yet closed
    home     |-> [ sid \in RegSessions |-> [ g |-> 0, c |-> 0 ] ],
    nAdds    |-> 0 ]

InitCommon ==
  /\ sendCh = << >>
  /\ receiveCh = << >>
  /\ pump = IdlePump
  /\ pc = [ s \in Sessions |-> NewPC ]
  /\ trk = [ s \in Sessions |-> IdleCall ]
  /\ sig = [ s \in Sessions |-> IdleSig ]
  /\ metrics = ZeroMetrics
  /\ screenSession = {}
  /\ nSends = 0
  /\ sendErr = NULL
  /\ nOps = 0

\* The other components as constructed, before any call on them.
AuxInit ==
  /\ rm = NewRM(1)
  /\ auth = NewService
  /\ srv = NewServer({}, "nil")
  /\ rtcp = NewRTCP("")
  /\ reg = NewRegistry

Init ==
  /\ InitCommon
  /\ AuxInit
  /\ sess = [ s \in Sessions |-> NewSession(TRUE, TRUE) ]

\* --------------------------------------------- addTrack and removeTrack
\* The call on session s returns with error e (NULL: no error).  addTrack
\* runs its deferred functions: the detach of the track when it was attached
\* and e is an error, then the reset of makingOffer.  removeTrack defers
\* nothing.
ReturnPc(s, e) ==
  CASE trk[s].op = "remove" -> "return"
    [] trk[s].sender # 0 /\ e # NULL -> "cleanup"
    [] OTHER -> "unmark"

Return(s, e) ==
  trk' = [trk EXCEPT ![s].err = e, ![s].pc = ReturnPc(s, e), ![s].fresh = 0]

\* addTrack, lines 279-289: the nil check and makingOffer = true.  Calls on a
\* session are serialized by its caller, a task that ends when closeCh closes.
StartAddTrack(s, t) ==
  /\ trk[s].pc = "idle"
  /\ ~sess[s].closed
  /\ nOps < MaxOps
  /\ nOps' = nOps + 1
  /\ IF t = NULL
       THEN /\ trk' = [trk EXCEPT ![s] =
                        [IdleCall EXCEPT !.pc = "return", !.op = "add",
                                         !.err = "nilTrack",
                                         !.pre = Snapshot(s)]]
            /\ UNCHANGED sess
       ELSE /\ sess' = [sess EXCEPT ![s].makingOffer = TRUE]
            /\ trk' = [trk EXCEPT ![s] =
                        [IdleCall EXCEPT !.pc = "attach", !.op = "add",
                                         !.track = t, !.pre = Snapshot(s)]]
  /\ UNCHANGED <<auxVars, sendCh, receiveCh, pump, pc, sig, metrics, screenSession,
                 nSends, sendErr>>

\* addTrack, lines 296-315, one critical section of s.mut: the duplicate and
\* screen-sender checks, rtcConn.AddTrack (libOk: the library's own outcome)
\* and the metric.
AddTrackAttach(s) ==
  /\ trk[s].pc = "attach"
  /\ LET t == trk[s].track IN
     \E libOk \in BOOLEAN :
       IF SendersOf(pc[s], t) # {}
         THEN Return(s, "exists") /\ UNCHANGED <<pc, metrics>>
       ELSE IF Kind(t) = "video" /\ sess[s].screenTrackSender # 0
         THEN Return(s, "screenSet") /\ UNCHANGED <<pc, metrics>>
       ELSE IF ~libOk
         THEN Return(s, "addFailed") /\ UNCHANGED <<pc, metrics>>
       ELSE LET r == AddTrack(pc[s], t) IN
            /\ pc' = [pc EXCEPT ![s] = r.pc]
            /\ metrics' = [metrics EXCEPT ![Kind(t)] = @ + 1]
            /\ trk' = [trk EXCEPT ![s].sender = r.sender, ![s].pc = "offer"]
  /\ UNCHANGED <<auxVars, sendCh, receiveCh, pump, sess, sig, screenSession, nSends, sendErr,
                 nOps>>

\* Mutant: the removal leaves the screen-sender slot alone.
removeSenderKeepsSlot(p, m, sts, i, t) ==
  [ pc      |-> ClearSender(p, i),
    metrics |-> [m EXCEPT ![Kind(t)] = @ - 1],
    sts     |-> sts ]

\* Mutant: the removal forgets the metric.
removeSenderKeepsMetric(p, m, sts, i, t) ==
  [ pc      |-> ClearSender(p, i),
    metrics |-> m,
    sts     |-> IF sts = i THEN 0 ELSE sts ]

\* removeTrack, lines 386-394: rtcConn.RemoveTrack(sender), the metric and
\* the screen-sender slot (p: rtcConn, m: metrics, sts: screenTrackSender).
removeSender(p, m, sts, i, t) ==
  [ pc      |-> ClearSender(p, i),
    metrics |-> [m EXCEPT ![Kind(t)] = @ - 1],
    sts     |-> IF sts = i THEN 0 ELSE sts ]

\* removeTrack, lines 363-395: the nil check and one critical section: the
\* sender lookup, rtcConn.RemoveTrack, the metric and the screen-sender slot.
StartRemoveTrack(s, t) ==
  /\ trk[s].pc = "idle"
  /\ ~sess[s].closed
  /\ nOps < MaxOps
  /\ nOps' = nOps + 1
  /\ LET call == [IdleCall EXCEPT !.pc = "return", !.op = "remove",
                                  !.track = t, !.pre = Snapshot(s)]
         found == IF t = NULL THEN {} ELSE SendersOf(pc[s], t)
     IN
     \E libOk \in BOOLEAN :
       IF t = NULL
         THEN /\ trk' = [trk EXCEPT ![s] = [call EXCEPT !.err = "nilTrack"]]
              /\ UNCHANGED <<pc, metrics, sess>>
       ELSE IF found = {}
         THEN /\ trk' = [trk EXCEPT ![s] = [call EXCEPT !.err = "notFound"]]
              /\ UNCHANGED <<pc, metrics, sess>>
       ELSE IF ~libOk
         THEN /\ trk' = [trk EXCEPT ![s] = [call EXCEPT !.err = "removeFailed"]]
              /\ UNCHANGED <<pc, metrics, sess>>
       ELSE LET i == CHOOSE j \in found : \A k \in found : j <= k
                r == removeSender(pc[s], metrics, sess[s].screenTrackSender,
                                  i, t)
            IN
            /\ pc' = [pc EXCEPT ![s] = r.pc]
            /\ metrics' = r.metrics
            /\ sess' = [sess EXCEPT ![s].screenTrackSender = r.sts]
            /\ trk' = [trk EXCEPT ![s] =
                        [call EXCEPT !.sender = i, !.pc = "offer"]]
  /\ UNCHANGED <<auxVars, sendCh, receiveCh, pump, sig, screenSession, nSends, sendErr>>

\* Mutant: the offer is sent without being set as the local description.
sendOfferLocalSkipped(p, reoffer) == [ ok |-> TRUE, pc |-> p ]

\* sendOffer, lines 255-263: CreateOffer and SetLocalDescription.
sendOfferLocal(p, reoffer) == SetLocalDescription(p, "offer", reoffer)

SendOfferSetLocal(s) ==
  /\ trk[s].pc = "offer"
  /\ \E reoffer \in BOOLEAN :
       LET r == sendOfferLocal(pc[s], reoffer) IN
       IF r.ok
         THEN /\ pc' = [pc EXCEPT ![s] = r.pc]
              /\ trk' = [trk EXCEPT ![s].pc = "emit"]
         ELSE /\ Return(s, "offer")
              /\ UNCHANGED pc
  /\ UNCHANGED <<auxVars, sendCh, receiveCh, pump, sess, sig, metrics, screenSession,
                 nSends, sendErr, nOps>>

\* sendOffer, lines 265-275: the non-blocking write of the offer to sdpOutCh.
SendOfferEmit(s) ==
  /\ trk[s].pc = "emit"
  /\ IF Len(receiveCh) < MsgChCap
       THEN /\ receiveCh' = Append(receiveCh,
                               [sid |-> s, type |-> "SDP", data |-> "offer"])
            /\ trk' = [trk EXCEPT ![s].pc = "await"]
       ELSE /\ Return(s, "offer")
            /\ UNCHANGED receiveCh
  /\ UNCHANGED <<auxVars, sendCh, pump, sess, pc, sig, metrics, screenSession, nSends, sendErr,
                 nOps>>

\* The select of addTrack (339-357) and removeTrack (401-414): an answer is
\* read from sdpAnswerInCh and applied.
AwaitAnswer(s) ==
  /\ trk[s].pc = "await"
  /\ Len(sess[s].sdpAnswerInCh) > 0
  /\ LET r == SetRemoteDescription(pc[s], Head(sess[s].sdpAnswerInCh)) IN
     /\ sess' = [sess EXCEPT ![s].sdpAnswerInCh = Tail(@)]
     /\ IF r.ok
          THEN /\ pc' = [pc EXCEPT ![s] = r.pc]
               /\ trk' = [trk EXCEPT ![s].fresh = 0, ![s].pc =
                    IF trk[s].op = "add" /\ Kind(trk[s].track) = "video"
                      THEN "setScreenSender"
                      ELSE ReturnPc(s, NULL)]
          ELSE /\ Return(s, "answer")
               /\ UNCHANGED pc
  /\ UNCHANGED <<auxVars, sendCh, receiveCh, pump, sig, metrics, screenSession, nSends, sendErr,
                 nOps>>

\* Mutant: the select has no timeout case.
AwaitTimeoutNever(s) == FALSE /\ UNCHANGED vars

\* The select's time.After(signalingTimeout) case.
AwaitTimeout(s) ==
  /\ trk[s].pc = "await"
  /\ Return(s, "timeout")
  /\ UNCHANGED <<auxVars, sendCh, receiveCh, pump, sess, pc, sig, metrics,
                 screenSession, nSends, sendErr, nOps>>

\* The select's closeCh case: the call returns nil.
AwaitClose(s) ==
  /\ trk[s].pc = "await"
  /\ sess[s].closed
  /\ Return(s, NULL)
  /\ UNCHANGED <<auxVars, sendCh, receiveCh, pump, sess, pc, sig, metrics,
                 screenSession, nSends, sendErr, nOps>>

\* addTrack, lines 347-351: the sender of a video track becomes the screen
\* track sender.
SetScreenSender(s) ==
  /\ trk[s].pc = "setScreenSender"
  /\ sess' = [sess EXCEPT ![s].screenTrackSender = trk[s].sender]
  /\ trk' = [trk EXCEPT ![s].pc = "unmark"]
  /\ UNCHANGED <<auxVars, sendCh, receiveCh, pump, pc, sig, metrics, screenSession,
                 nSends, sendErr, nOps>>

\* Mutant: the deferred detach forgets the metric.
DeferDetachKeepsMetric(s) ==
  /\ trk[s].pc = "cleanup"
  /\ pc' = [pc EXCEPT ![s] = ClearSender(pc[s], trk[s].sender)]
  /\ trk' = [trk EXCEPT ![s].pc = "unmark"]
  /\ UNCHANGED <<auxVars, sendCh, receiveCh, pump, sess, sig, metrics, screenSession,
                 nSends, sendErr, nOps>>

\* addTrack's second deferred function, lines 317-331: on an error the track
\* is detached with ReplaceTrack(nil) and the metric decremented.
DeferDetach(s) ==
  /\ trk[s].pc = "cleanup"
  /\ pc' = [pc EXCEPT ![s] = ClearSender(pc[s], trk[s].sender)]
  /\ metrics' = [metrics EXCEPT ![Kind(trk[s].track)] = @ - 1]
  /\ trk' = [trk EXCEPT ![s].pc = "unmark"]
  /\ UNCHANGED <<auxVars, sendCh, receiveCh, pump, sess, sig, screenSession, nSends, sendErr,
                 nOps>>

\* addTrack's first deferred function, lines 290-294: makingOffer = false.
DeferUnmark(s) ==
  /\ trk[s].pc = "unmark"
  /\ sess' = [sess EXCEPT ![s].makingOffer = FALSE]
  /\ trk' = [trk EXCEPT ![s] = IdleCall]
  /\ UNCHANGED <<auxVars, sendCh, receiveCh, pump, pc, sig, metrics, screenSession,
                 nSends, sendErr, nOps>>

\* A call that defers nothing (removeTrack, addTrack of a nil track) returns
\* to its caller.
ReturnCall(s) ==
  /\ trk[s].pc = "return"
  /\ trk' = [trk EXCEPT ![s] = IdleCall]
  /\ UNCHANGED <<auxVars, sendCh, receiveCh, pump, sess, pc, sig, metrics,
                 screenSession, nSends, sendErr, nOps>>

\* ----------------------------------------------- the remote-offer handler
\* The session's task that reads sdpOfferInCh and calls session.signaling.
SigRecv(s) ==
  /\ sig[s].pc = "idle"
  /\ Len(sess[s].sdpOfferInCh) > 0
  /\ sig' = [sig EXCEPT ![s] = [pc |-> "setRemote",
                                offer |-> Head(sess[s].sdpOfferInCh)]]
  /\ sess' = [sess EXCEPT ![s].sdpOfferInCh = Tail(@)]
  /\ UNCHANGED <<auxVars, sendCh, receiveCh, pump, pc, trk, metrics, screenSession,
                 nSends, sendErr, nOps>>

\* signaling, lines 421-423: SetRemoteDescription(offer).
SigSetRemote(s) ==
  /\ sig[s].pc = "setRemote"
  /\ LET r == SetRemoteDescription(pc[s], sig[s].offer) IN
     IF r.ok
       THEN /\ pc' = [pc EXCEPT ![s] = r.pc]
            /\ sig' = [sig EXCEPT ![s].pc = "answer"]
       ELSE /\ sig' = [sig EXCEPT ![s] = IdleSig]
            /\ UNCHANGED pc
  /\ UNCHANGED <<auxVars, sendCh, receiveCh, pump, sess, trk, metrics, screenSession,
                 nSends, sendErr, nOps>>

\* signaling, lines 425-432: CreateAnswer and SetLocalDescription(answer).
SigSetLocal(s) ==
  /\ sig[s].pc = "answer"
  /\ LET r == SetLocalDescription(pc[s], "answer", FALSE) IN
     IF CreateAnswerOk(pc[s]) /\ r.ok
       THEN /\ pc' = [pc EXCEPT ![s] = r.pc]
            /\ sig' = [sig EXCEPT ![s].pc = "send"]
       ELSE /\ sig' = [sig EXCEPT ![s] = IdleSig]
            /\ UNCHANGED pc
  /\ UNCHANGED <<auxVars, sendCh, receiveCh, pump, sess, trk, metrics, screenSession,
                 nSends, sendErr, nOps>>

\* signaling, lines 434-445: the non-blocking write of the answer.
SigSend(s) ==
  /\ sig[s].pc = "send"
  /\ receiveCh' = IF Len(receiveCh) < MsgChCap
                    THEN Append(receiveCh,
                           [sid |-> s, type |-> "SDP", data |-> "answer"])
                    ELSE receiveCh
  /\ sig' = [sig EXCEPT ![s] = IdleSig]
  /\ UNCHANGED <<auxVars, sendCh, pump, sess, pc, trk, metrics, screenSession, nSends, sendErr,
                 nOps>>

\* ------------------------------------------------------------- the call
\* Mutant: the session is recorded whoever holds the slot.
setScreenSessionAlways(slot, s) == [ ok |-> TRUE, slot |-> slot \cup {s} ]

\* call.setScreenSession: the session is recorded when the slot is empty.
setScreenSession(slot, s) ==
  IF slot = {} THEN [ ok |-> TRUE, slot |-> {s} ]
               ELSE [ ok |-> FALSE, slot |-> slot ]

\* session.clearScreenState, lines 486-492.
sessionClearScreenState(x) == [x EXCEPT !.screenStreamID = ""]

\* call.clearScreenState(session): when the session holds the slot, the slot
\* is cleared and the session's screen state reset.
callClearScreenState(slot, ss, s) ==
  IF s \in slot
    THEN [ slot |-> slot \ {s},
           sess |-> [ss EXCEPT ![s] = sessionClearScreenState(ss[s])] ]
    ELSE [ slot |-> slot, sess |-> ss ]

\* ----------------------------------------------------- the message pump
MessageTypes == {"ICE", "SDP", "ScreenOn", "ScreenOff", "Mute", "Unmute",
                 "VoiceOn", "VoiceOff"}

\* Message.IsValid: non-empty identifier and a known type.
IsValid(msg) == msg.sid # "" /\ msg.type \in MessageTypes

\* json.Unmarshal of a ScreenOn payload into map[string]string.
ParseScreenOn(data) ==
  [ ok |-> data # "garbage",
    screenStreamID |-> IF data = "garbage" THEN "" ELSE data ]

\* Mutant: the write goes through whatever the channel holds.
TrySendUnbounded(ch, v, cap) == Append(ch, v)

\* A non-blocking channel write: the value is dropped when the channel is full.
TrySend(ch, v, cap) == IF Len(ch) < cap THEN Append(ch, v) ELSE ch

\* What msgReader does with one message (lines 180-298): the next values of
\* the pump, the sessions and the call's screen slot.
Same == [ pump |-> pump, sess |-> sess, slot |-> screenSession ]

DispatchSDP(s, data) ==
  LET sdp == ParseSDP(data) IN
  CASE ~sdp.ok -> Same
    [] sdp.type = "offer" /\ hasSignalingConflict(s) -> Same
    [] sdp.type \in {"offer", "answer"} ->
         [Same EXCEPT !.pump = [pump EXCEPT !.pc = "write", !.sid = s,
                                            !.sdp = data]]
    [] OTHER -> [Same EXCEPT !.pump = [pump EXCEPT !.alive = FALSE]]

DispatchScreenOn(s, data) ==
  LET d == ParseScreenOn(data) IN
  IF ~d.ok THEN Same
  ELSE [Same EXCEPT
          !.sess = [sess EXCEPT ![s].screenStreamID = d.screenStreamID],
          !.slot = setScreenSession(screenSession, s).slot]

DispatchScreenOff(s) ==
  LET r == callClearScreenState(screenSession, sess, s) IN
  [Same EXCEPT !.sess = r.sess, !.slot = r.slot]

\* Mutant: a Mute leaves the enable flag as it was.
DispatchMuteKeepsFlag(s, type) ==
  IF sess[s].outVoiceTrack = NULL THEN Same
  ELSE [Same EXCEPT !.sess = [sess EXCEPT
          ![s].vadMonitor = IF type = "Mute" /\ @ # NULL THEN "reset" ELSE @,
          ![s].outVoiceTrackEnabled = IF type = "Unmute" THEN TRUE ELSE @]]

\* msgReader, lines 268-295: Mute / Unmute.
DispatchMute(s, type) ==
  IF sess[s].outVoiceTrack = NULL THEN Same
  ELSE [Same EXCEPT !.sess = [sess EXCEPT
          ![s].vadMonitor = IF type = "Mute" /\ @ # NULL THEN "reset" ELSE @,
          ![s].outVoiceTrackEnabled = (type = "Unmute")]]

Dispatch(msg) ==
  CASE ~IsValid(msg) -> Same
    [] msg.sid \notin Sessions -> Same
    [] msg.type = "ICE" ->
         [Same EXCEPT !.sess = [sess EXCEPT ![msg.sid].iceInCh =
                                  TrySend(@, msg.data, SignalChCap)]]
    [] msg.type = "SDP" -> DispatchSDP(msg.sid, msg.data)
    [] msg.type = "ScreenOn" -> DispatchScreenOn(msg.sid, msg.data)
    [] msg.type = "ScreenOff" -> DispatchScreenOff(msg.sid)
    [] msg.type \in {"Mute", "Unmute"} -> DispatchMute(msg.sid, msg.type)
    [] OTHER -> Same

\* msgReader: one message is read from sendCh and dispatched.
PumpRecv ==
  /\ pump.alive
  /\ pump.pc = "recv"
  /\ Len(sendCh) > 0
  /\ LET r == Dispatch(Head(sendCh)) IN
     /\ sendCh' = Tail(sendCh)
     /\ pump' = r.pump
     /\ sess' = r.sess
     /\ screenSession' = r.slot
  /\ UNCHANGED <<auxVars, receiveCh, pc, trk, sig, metrics, nSends, sendErr, nOps>>

\* msgReader, lines 236-249: the non-blocking write of the description to the
\* session's offer or answer channel.
PumpWrite ==
  /\ pump.alive
  /\ pump.pc = "write"
  /\ LET s == pump.sid IN
     sess' = IF ParseSDP(pump.sdp).type = "offer"
               THEN [sess EXCEPT ![s].sdpOfferInCh =
                                   TrySend(@, pump.sdp, SignalChCap)]
               ELSE [sess EXCEPT ![s].sdpAnswerInCh =
                                   TrySend(@, pump.sdp, SignalChCap)]
  /\ trk' = IF /\ ParseSDP(pump.sdp).type = "answer"
               /\ trk[pump.sid].pc = "await"
               /\ Len(sess[pump.sid].sdpAnswerInCh) < SignalChCap
             THEN [trk EXCEPT ![pump.sid].fresh = @ + 1]
             ELSE trk
  /\ pump' = IdlePump
  /\ UNCHANGED <<auxVars, sendCh, receiveCh, pc, sig, metrics, screenSession,
                 nSends, sendErr, nOps>>

\* ------------------------------------------------------- the embedder
\* What Server.Send returns (lines 72-77): nil, or the error of the default
\* branch when sendCh is full.
SendResult(ch) == IF Len(ch) < MsgChCap THEN NULL ELSE "channel is full"

\* What the send statement of a select does on a closed channel.
PanicClosedChannel == "panic: send on closed channel"

\* Server.Send, lines 71-78: non-blocking; an error when sendCh is full.  The
\* select's send case panics once Stop has closed sendCh.
Send(msg) ==
  /\ nSends' = nSends + 1
  /\ sendCh' = IF srv.chClosed THEN sendCh
                ELSE TrySend(sendCh, msg, MsgChCap)
  /\ sendErr' = IF srv.chClosed THEN PanicClosedChannel
                 ELSE SendResult(sendCh)
  /\ UNCHANGED <<auxVars, receiveCh, pump, sess, pc, trk, sig, metrics,
                 screenSession, nOps>>

\* The embedder reads the next outbound message from ReceiveCh().
Receive ==
  /\ Len(receiveCh) > 0
  /\ receiveCh' = Tail(receiveCh)
  /\ UNCHANGED <<auxVars, sendCh, pump, sess, pc, trk, sig, metrics, screenSession,
                 nSends, sendErr, nOps>>

\* The session's close signal: closeCh is closed.
CloseSession(s) ==
  /\ ~sess[s].closed
  /\ sess' = [sess EXCEPT ![s].closed = TRUE]
  /\ UNCHANGED <<auxVars, sendCh, receiveCh, pump, pc, trk, sig, metrics,
                 screenSession, nSends, sendErr, nOps>>

\* ------------------------------------------- specification: signaling
SigPayloads == {"offer", "answer", "answerBad"}

SendSDP ==
  /\ nSends < MaxSends
  /\ \E s \in SigSessions, d \in SigPayloads :
       Send([sid |-> s, type |-> "SDP", data |-> d])

SendMute ==
  /\ nSends < MaxSends
  /\ \E s \in SigSessions, t \in {"Mute", "Unmute"} :
       Send([sid |-> s, type |-> t, data |-> ""])

SendICE ==
  /\ nSends < MaxSends
  /\ \E s \in SigSessions :
       Send([sid |-> s, type |-> "ICE", data |-> "candidate"])

\* The session's ICE handler takes the next candidate from iceInCh.
IceRecv(s) ==
  /\ Len(sess[s].iceInCh) > 0
  /\ sess' = [sess EXCEPT ![s].iceInCh = Tail(@)]
  /\ UNCHANGED <<auxVars, sendCh, receiveCh, pump, pc, trk, sig, metrics,
                 screenSession, nSends, sendErr, nOps>>

TrackStep(s) ==
  \/ AddTrackAttach(s)
  \/ SendOfferSetLocal(s)
  \/ SendOfferEmit(s)
  \/ AwaitAnswer(s)
  \/ AwaitTimeout(s)
  \/ AwaitClose(s)
  \/ SetScreenSender(s)
  \/ DeferDetach(s)
  \/ DeferUnmark(s)
  \/ ReturnCall(s)

SigStep(s) == SigRecv(s) \/ SigSetRemote(s) \/ SigSetLocal(s) \/ SigSend(s)

Next ==
  \/ SendSDP
  \/ SendMute
  \/ SendICE
  \/ Receive
  \/ PumpRecv
  \/ PumpWrite
  \/ \E s \in SigSessions :
       \/ IceRecv(s)
       \/ \E t \in Tracks \cup {NULL} : StartAddTrack(s, t)
       \/ \E t \in Tracks \cup {NULL} : StartRemoveTrack(s, t)
       \/ TrackStep(s)
       \/ SigStep(s)
       \/ CloseSession(s)

Spec == Init /\ [][Next]_vars

\* ------------------------------------------------ specification: the call
\* Two sessions of one call send ScreenOn / ScreenOff / Mute / Unmute.
InitCall ==
  /\ InitCommon
  /\ AuxInit
  /\ \E voice \in [Sessions -> BOOLEAN], vad \in [Sessions -> BOOLEAN] :
       sess = [ s \in Sessions |-> NewSession(voice[s], vad[s]) ]

CallMessages ==
  { [sid |-> s, type |-> "ScreenOn", data |-> d] :
      s \in Sessions, d \in {"streamX", "streamY"} }
  \cup { [sid |-> s, type |-> t, data |-> ""] :
      s \in Sessions, t \in {"ScreenOff", "Mute", "Unmute"} }

SendCall ==
  /\ nSends < MaxCallSends
  /\ \E m \in CallMessages : Send(m)

\* The VAD monitor processes voice after a reset.
VADProcess(s) ==
  /\ sess[s].vadMonitor = "reset"
  /\ sess' = [sess EXCEPT ![s].vadMonitor = "active"]
  /\ UNCHANGED <<auxVars, sendCh, receiveCh, pump, pc, trk, sig, metrics,
                 screenSession, nSends, sendErr, nOps>>

NextCall ==
  \/ SendCall
  \/ PumpRecv
  \/ \E s \in Sessions : VADProcess(s)

SpecCall == InitCall /\ [][NextCall]_vars

\* ---------------------------------------- specification: the pump alone
\* The messages the embedder sends: well-formed ones for the two sessions,
\* an empty session id, an unknown type, an unknown session, payloads that
\* do not parse, and SDP of every type.
PumpMessages ==
  { [sid |-> s, type |-> t, data |-> ""] :
      s \in Sessions, t \in {"Mute", "Unmute"} }
  \cup { [sid |-> "s1", type |-> "SDP", data |-> d] : d \in SDPPayloads }
  \cup { [sid |-> "s1", type |-> "ICE", data |-> "candidate"],
         [sid |-> "s1", type |-> "ScreenOn", data |-> "garbage"],
         [sid |-> "", type |-> "ICE", data |-> "candidate"],
         [sid |-> "s1", type |-> "Bogus", data |-> ""],
         [sid |-> "ghost", type |-> "Mute", data |-> ""] }

SendPump ==
  /\ nSends < MaxPumpSends
  /\ \E m \in PumpMessages : Send(m)

NextPump ==
  \/ SendPump
  \/ PumpRecv
  \/ PumpWrite
  \/ \E s \in Sessions : IceRecv(s)

SpecPump == Init /\ [][NextPump]_vars

\* ------------------------------- specification: the sender's RTCP reader
\* What one ReadRTCP call can return: a few packets, PLIs and receiver
\* reports.
RTCPBatches == { <<"PLI">>, <<"RR">>, <<"PLI", "PLI">>, <<"RR", "PLI">> }
SenderRIDs == {"", "low"}
RemoteRIDs == {"default", "low"}

\* RTCP packets arrive at the subscriber's sender.
RTCPArrive ==
  /\ rtcp.nRead < MaxRTCPReads
  /\ ~rtcp.closed
  /\ \E pkts \in RTCPBatches :
       rtcp' = [rtcp EXCEPT !.inbox = Append(@, pkts), !.nRead = @ + 1]
  /\ UNCHANGED <<coreVars, rm, auth, srv, reg>>

\* The sender is stopped: ReadRTCP returns an error from now on.
RTCPSenderStop ==
  /\ ~rtcp.closed
  /\ rtcp' = [rtcp EXCEPT !.closed = TRUE, !.inbox = << >>]
  /\ UNCHANGED <<coreVars, rm, auth, srv, reg>>

\* handleSenderRTCP, lines 218-251: one turn of the loop: ReadRTCP returns
\* an error (the reader returns) or some packets, which are gone through.
ReaderStep ==
  /\ rtcp.reader = "reading"
  /\ rtcp.closed \/ rtcp.inbox # << >>
  /\ rtcp' = IF rtcp.closed
               THEN [rtcp EXCEPT !.reader = "returned"]
               ELSE LET h == handlePkts(rtcp, Head(rtcp.inbox), rtcp.written) IN
                    [rtcp EXCEPT !.inbox = Tail(@),
                                 !.written = h.written,
                                 !.reader = IF h.ok THEN "reading"
                                            ELSE "returned"]
  /\ UNCHANGED <<coreVars, rm, auth, srv, reg>>

\* addTrack, line 333: a later addTrack on the session that obtains the same
\* sender starts a reader for it.
ReaderSpawn ==
  /\ rtcp.reader = "returned"
  /\ ~rtcp.closed
  /\ rtcp.screenSession # "nil"
  /\ rtcp' = [rtcp EXCEPT !.reader = "reading"]
  /\ UNCHANGED <<coreVars, rm, auth, srv, reg>>

\* The call's screen session is set (ScreenOn) or cleared (ScreenOff, with
\* clearScreenState, lines 486-492, emptying remoteScreenTracks).
ScreenChange ==
  /\ rtcp' = IF rtcp.screenSession = "nil"
               THEN [rtcp EXCEPT !.screenSession = "p1"]
               ELSE [rtcp EXCEPT !.screenSession = "nil",
                                 !.remoteTracks = {}]
  /\ UNCHANGED <<coreVars, rm, auth, srv, reg>>

\* A remote screen track of the presenter arrives and is stored by its RID.
RemoteTrackArrives ==
  /\ rtcp.screenSession # "nil"
  /\ \E rid \in RemoteRIDs \ rtcp.remoteTracks :
       rtcp' = [rtcp EXCEPT !.remoteTracks = @ \cup {rid}]
  /\ UNCHANGED <<coreVars, rm, auth, srv, reg>>

InitRTCP ==
  /\ InitCommon
  /\ sess = [ s \in Sessions |-> NewSession(TRUE, TRUE) ]
  /\ rm = NewRM(1)
  /\ auth = NewService
  /\ srv = NewServer({}, "nil")
  /\ \E rid \in SenderRIDs : rtcp = NewRTCP(rid)
  /\ reg = NewRegistry

NextRTCP ==
  \/ RTCPArrive
  \/ RTCPSenderStop
  \/ ReaderStep
  \/ ReaderSpawn
  \/ ScreenChange
  \/ RemoteTrackArrives

SpecRTCP == InitRTCP /\ [][NextRTCP]_vars

\* ------------------------------- specification: the server's registry
\* addSession, lines 65-72: the call starts; a configuration that is not
\* valid or a nil peer connection ends it with an error.
AddSessionCall(sid) ==
  /\ reg.add[sid].pc = "idle"
  /\ reg.nAdds < MaxAddSessions
  /\ \E peerConn \in {"nil", "conn"} :
       reg' = [reg EXCEPT
         !.nAdds = @ + 1,
         !.add[sid] =
           IF ~CfgIsValid(Cfg(sid))
             THEN [IdleAdd EXCEPT !.err = Errorf("invalid config")]
           ELSE IF peerConn = "nil"
             THEN [IdleAdd EXCEPT !.err = Errorf("peerConn should not be nil")]
           ELSE [IdleAdd EXCEPT !.pc = "group"]]
  /\ UNCHANGED <<coreVars, rm, auth, srv, rtcp>>

\* addSession, lines 74-84: under Server.mut, the group of the configuration
\* is looked up and made when missing.
AddSessionGroup(sid) ==
  /\ reg.add[sid].pc = "group"
  /\ LET gid == Cfg(sid).GroupID IN
     reg' = IF reg.groups[gid] # 0
       THEN [reg EXCEPT !.add[sid].g = reg.groups[gid],
                        !.add[sid].pc = "call"]
       ELSE [reg EXCEPT
               !.gobj = Append(@, [ id |-> gid,
                                    calls |-> [ cid \in RegCalls |-> 0 ] ]),
               !.groups[gid] = Len(reg.gobj) + 1,
               !.add[sid].g = Len(reg.gobj) + 1,
               !.add[sid].pc = "call"]
  /\ UNCHANGED <<coreVars, rm, auth, srv, rtcp>>

\* addSession, lines 86-97: under the group's lock, the call of the
\* configuration is looked up in the group held and made when missing.
AddSessionGetCall(sid) ==
  /\ reg.add[sid].pc = "call"
  /\ LET cid == Cfg(sid).CallID
         g   == reg.add[sid].g IN
     reg' = IF reg.gobj[g].calls[cid] # 0
       THEN [reg EXCEPT !.add[sid].c = reg.gobj[g].calls[cid],
                        !.add[sid].pc = "session"]
       ELSE [reg EXCEPT
               !.cobj = Append(@, [ id |-> cid, sessions |-> {} ]),
               !.gobj[g].calls[cid] = Len(reg.cobj) + 1,
               !.add[sid].c = Len(reg.cobj) + 1,
               !.add[sid].pc = "session"]
  /\ UNCHANGED <<coreVars, rm, auth, srv, rtcp>>

\* call.addSession: the session is stored in the call's session map unless
\* the map has an entry for its ID.
callAddSession(c, sid) ==
  IF sid \in c.sessions
    THEN [ c |-> c, ok |-> FALSE ]
    ELSE [ c |-> [c EXCEPT !.sessions = @ \cup {sid}], ok |-> TRUE ]

\* addSession, lines 99-102: the session is added to the call held; a
\* session of that ID in the call ends addSession with an error.
AddSessionToCall(sid) ==
  /\ reg.add[sid].pc = "session"
  /\ LET c == reg.add[sid].c
         r == callAddSession(reg.cobj[c], sid) IN
     reg' = IF r.ok
       THEN [reg EXCEPT !.cobj[c] = r.c, !.add[sid].pc = "index"]
       ELSE [reg EXCEPT !.add[sid] =
               [IdleAdd EXCEPT !.err = Errorf("user session already exists")]]
  /\ UNCHANGED <<coreVars, rm, auth, srv, rtcp>>

\* addSession, lines 103-107: under Server.mut, the configuration is stored
\* in Server.sessions and addSession returns the session.
AddSessionIndex(sid) ==
  /\ reg.add[sid].pc = "index"
  /\ reg' = [reg EXCEPT
       !.sessions[sid] = Cfg(sid),
       !.live = @ \cup {sid},
       !.home[sid] = [ g |-> reg.add[sid].g, c |-> reg.add[sid].c ],
       !.add[sid] = IdleAdd]
  /\ UNCHANGED <<coreVars, rm, auth, srv, rtcp>>

\* msgReader, lines 185-213: the lookup of a session ID: "session" when the
\* session is found, the error logged otherwise.
Lookup(r, sid) ==
  LET cfg == r.sessions[sid] IN
  IF cfg = NoCfg THEN "session not found"
  ELSE LET g == r.groups[cfg.GroupID] IN
    IF g = 0 THEN "group not found"
    ELSE LET c == r.gobj[g].calls[cfg.CallID] IN
      IF c = 0 THEN "call not found"
      ELSE IF cfg.SessionID \in r.cobj[c].sessions THEN "session"
      ELSE "session not found"

\* The teardown of a session, in one step: its entry in Server.sessions is
\* deleted; the session, found by the lookup, is closed and removed from
\* its call; a call left without sessions is removed from its group and a
\* group left without calls from the server.
RegCloseSession(sid) ==
  /\ sid \in reg.live
  /\ reg.sessions[sid] # NoCfg
  /\ LET cfg == reg.sessions[sid]
         r0  == [reg EXCEPT !.sessions[sid] = NoCfg] IN
     IF Lookup(reg, sid) # "session"
       THEN reg' = r0
       ELSE
         LET g  == reg.groups[cfg.GroupID]
             c  == reg.gobj[g].calls[cfg.CallID]
             r1 == [r0 EXCEPT !.cobj[c].sessions = @ \ {sid},
                              !.live = @ \ {sid}]
             r2 == IF r1.cobj[c].sessions = {}
                     THEN [r1 EXCEPT !.gobj[g].calls[cfg.CallID] = 0]
                     ELSE r1
             r3 == IF \A cid \in RegCalls : r2.gobj[g].calls[cid] = 0
                     THEN [r2 EXCEPT !.groups[cfg.GroupID] = 0]
                     ELSE r2 IN
         reg' = r3
  /\ UNCHANGED <<coreVars, rm, auth, srv, rtcp>>

InitReg ==
  /\ InitCommon
  /\ sess = [ s \in Sessions |-> NewSession(TRUE, TRUE) ]
  /\ rm = NewRM(1)
  /\ auth = NewService
  /\ srv = NewServer({}, "nil")
  /\ rtcp = NewRTCP("")
  /\ reg = NewRegistry

NextReg ==
  \/ \E sid \in RegSessions : AddSessionCall(sid)
  \/ \E sid \in RegSessions : AddSessionGroup(sid)
  \/ \E sid \in RegSessions : AddSessionGetCall(sid)
  \/ \E sid \in RegSessions : AddSessionToCall(sid)
  \/ \E sid \in RegSessions : AddSessionIndex(sid)
  \/ \E sid \in RegSessions : RegCloseSession(sid)

SpecReg == InitReg /\ [][NextReg]_vars

\* ------------------------------------------- specification: Server.Stop
\* The session identifiers that register with the server in SpecStop.
StopSessions == {"s1", "s2", "s3"}

\* Mutant: Stop goes on without a drain channel.
StopCallSkipsDrain ==
  /\ srv.stop = "idle"
  /\ srv' = [srv EXCEPT !.stop = "mux", !.waitedOn = srv.sessions,
                        !.waited = srv.sessions # {}]
  /\ UNCHANGED <<coreVars, rm, auth, rtcp, reg>>

\* Stop, lines 148-162: under the lock, a drain channel is made and stored
\* when sessions are registered; the call then waits on it.
StopCall ==
  /\ srv.stop = "idle"
  /\ srv' = IF srv.sessions # {}
              THEN [srv EXCEPT !.drainCh = "open", !.stop = "wait",
                               !.waited = TRUE, !.waitedOn = srv.sessions]
              ELSE [srv EXCEPT !.stop = "mux"]
  /\ UNCHANGED <<coreVars, rm, auth, rtcp, reg>>

\* Stop, lines 160-162: <-drainCh returns once the channel is closed.
StopDrained ==
  /\ srv.stop = "wait"
  /\ srv.drainCh = "closed"
  /\ srv' = [srv EXCEPT !.stop = "mux"]
  /\ UNCHANGED <<coreVars, rm, auth, rtcp, reg>>

\* Stop, lines 164-168: the UDP mux, when there is one, is closed; a failure
\* to close it ends the call.
StopCloseMux ==
  /\ srv.stop = "mux"
  /\ IF srv.udpMux = "nil"
       THEN srv' = [srv EXCEPT !.stop = "channels"]
       ELSE \E ok \in BOOLEAN :
              srv' = IF ok
                THEN [srv EXCEPT !.udpMux = "closed", !.stop = "channels"]
                ELSE [srv EXCEPT !.stop = "returned",
                        !.err = Errorf("failed to close udp mux")]
  /\ UNCHANGED <<coreVars, rm, auth, rtcp, reg>>

\* Stop, lines 170-175: receiveCh and sendCh are closed and Stop returns.
StopCloseChannels ==
  /\ srv.stop = "channels"
  /\ srv' = [srv EXCEPT !.chClosed = TRUE, !.stop = "returned"]
  /\ UNCHANGED <<coreVars, rm, auth, rtcp, reg>>

\* addSession, lines 65-108: the session is registered in Server.sessions.
addSession(id) ==
  /\ id \notin srv.sessions
  /\ srv' = [srv EXCEPT !.sessions = @ \cup {id}]
  /\ UNCHANGED <<coreVars, rm, auth, rtcp, reg>>

\* The teardown of a session: it is unregistered, and the teardown of the
\* last one closes the drain channel when Stop has made one.
CloseSessionTeardown(id) ==
  /\ id \in srv.sessions
  /\ srv' = [srv EXCEPT
               !.sessions = @ \ {id},
               !.drainCh = IF @ = "open" /\ srv.sessions = {id}
                             THEN "closed" ELSE @]
  /\ UNCHANGED <<coreVars, rm, auth, rtcp, reg>>

InitStop ==
  /\ InitCommon
  /\ sess = [ s \in Sessions |-> NewSession(TRUE, TRUE) ]
  /\ rm = NewRM(1)
  /\ auth = NewService
  /\ rtcp = NewRTCP("")
  /\ reg = NewRegistry
  /\ \E registered \in SUBSET StopSessions, mux \in {"nil", "open"} :
       srv = NewServer(registered, mux)

NextStop ==
  \/ StopCall
  \/ StopDrained
  \/ StopCloseMux
  \/ StopCloseChannels
  \/ \E id \in StopSessions : addSession(id)
  \/ \E id \in StopSessions : CloseSessionTeardown(id)

SpecStop == InitStop /\ [][NextStop]_vars

\* Stop with the embedder calling Send (here: Mute and Unmute messages) at
\* any time before, during and after it.
NextStopSend ==
  \/ NextStop
  \/ SendMute

SpecStopSend == InitStop /\ [][NextStopSend]_vars

\* ------------------------------------------ specification: RateMonitor
\* Sizes of the samples pushed, in bytes.
SampleSizes == {1, 3}

\* The injected clock now() advances: its readings never decrease.
RMTick ==
  /\ rm.clock < MaxClock
  /\ rm' = [rm EXCEPT !.clock = @ + 1]
  /\ UNCHANGED <<coreVars, auth, srv, rtcp, reg>>

\* A PushSample call (lines 40-60) at the current clock reading.
RMPushSample ==
  /\ rm.nPush < MaxPushes
  /\ \E size \in SampleSizes :
       rm' = [rm EXCEPT !.m = PushSample(rm.m, size, rm.clock),
                        !.nPush = @ + 1,
                        !.firstPush = IF rm.nPush = 0 THEN rm.clock ELSE @,
                        !.lastPush = rm.clock,
                        !.op = "PushSample"]
  /\ UNCHANGED <<coreVars, auth, srv, rtcp, reg>>

\* A GetRate call (lines 80-104) at the current clock reading.
RMGetRate ==
  /\ \E r \in GetRate(rm.m, rm.clock) :
       rm' = [rm EXCEPT !.op = "GetRate", !.result = r]
  /\ UNCHANGED <<coreVars, auth, srv, rtcp, reg>>

InitRate ==
  /\ InitCommon
  /\ sess = [ s \in Sessions |-> NewSession(TRUE, TRUE) ]
  /\ auth = NewService
  /\ srv = NewServer({}, "nil")
  /\ rtcp = NewRTCP("")
  /\ reg = NewRegistry
  /\ \E samplingSize \in 1..MaxSamplingSize : rm = NewRM(samplingSize)

NextRate == RMTick \/ RMPushSample \/ RMGetRate

SpecRate == InitRate /\ [][NextRate]_vars

\* ----------------------------------------- specification: auth service
\* Number of calls on the auth service in a run.
MaxAuthCalls == 5

\* The ids the callers use (the empty id included) and the keys
\* newRandomString can yield or a caller can present.
AuthIds == {"", "srvA", "srvB"}
AuthKeys == {"k1", "k2"}

\* A Register call.
AuthRegister(id) ==
  /\ auth.n < MaxAuthCalls
  /\ \E newKey \in AuthKeys, randOk \in BOOLEAN :
       LET r == Register(auth.store, id, newKey, randOk) IN
       auth' = [auth EXCEPT
                  !.store = r.db,
                  !.op = [ name |-> "Register", id |-> id, key |-> r.key,
                           err |-> r.err ],
                  !.keys = IF r.err = NoErr
                             THEN [ k \in DOMAIN auth.keys \cup {id} |->
                                      IF k = id THEN r.key ELSE auth.keys[k] ]
                             ELSE @,
                  !.gone = IF r.err = NoErr THEN @ \ {id} ELSE @,
                  !.n = @ + 1]
  /\ UNCHANGED <<coreVars, rm, srv, rtcp, reg>>

\* An Authenticate call.
AuthAuthenticate(id, authKey) ==
  /\ auth.n < MaxAuthCalls
  /\ auth' = [auth EXCEPT
                !.op = [ name |-> "Authenticate", id |-> id, key |-> authKey,
                         err |-> Authenticate(auth.store, id, authKey) ],
                !.n = @ + 1]
  /\ UNCHANGED <<coreVars, rm, srv, rtcp, reg>>

\* An Unregister call.
AuthUnregister(id) ==
  /\ auth.n < MaxAuthCalls
  /\ LET r == Unregister(auth.store, id) IN
     auth' = [auth EXCEPT
                !.store = r.db,
                !.op = [ name |-> "Unregister", id |-> id, key |-> "",
                         err |-> r.err ],
                !.gone = IF r.err = NoErr THEN @ \cup {id} ELSE @,
                !.n = @ + 1]
  /\ UNCHANGED <<coreVars, rm, srv, rtcp, reg>>

InitAuth ==
  /\ InitCommon
  /\ sess = [ s \in Sessions |-> NewSession(TRUE, TRUE) ]
  /\ rm = NewRM(1)
  /\ srv = NewServer({}, "nil")
  /\ rtcp = NewRTCP("")
  /\ reg = NewRegistry
  /\ auth = NewService

NextAuth ==
  \/ \E id \in AuthIds : AuthRegister(id)
  \/ \E id \in AuthIds, authKey \in AuthKeys : AuthAuthenticate(id, authKey)
  \/ \E id \in AuthIds : AuthUnregister(id)

SpecAuth == InitAuth /\ [][NextAuth]_vars

\* ================================================================ claims

\* The pump is reading message m for session s in this step.
PumpReads(s, type) ==
  /\ pump.alive /\ pump.pc = "recv" /\ Len(sendCh) > 0
  /\ Head(sendCh).sid = s
  /\ Head(sendCh).type = type

PumpReadsOffer(s) ==
  /\ PumpReads(s, "SDP")
  /\ ParseSDP(Head(sendCh).data).ok
  /\ ParseSDP(Head(sendCh).data).type = "offer"

PumpStep == sendCh' = Tail(sendCh) /\ Len(sendCh) > 0

\* C1: an inbound SDP offer dispatched by the pump while the session's
\* makingOffer is true or its signaling state is not Stable is ignored: it
\* is neither queued on sdpOfferInCh (nor kept for a later write) and the
\* peer connection is left as it was.
C1_ConflictingOfferIgnored ==
  [][ \A s \in Sessions :
        ( /\ PumpReadsOffer(s)
          /\ PumpStep
          /\ (sess[s].makingOffer \/ pc[s].sigState # "stable") )
        => /\ sess'[s].sdpOfferInCh = sess[s].sdpOfferInCh
           /\ pump' = IdlePump
           /\ pc'[s] = pc[s]
    ]_vars

C1_Witness ==
  \E s \in Sessions :
    /\ PumpReadsOffer(s)
    /\ ~sess[s].makingOffer
    /\ pc[s].sigState = "have-local-offer"

\* C2 (as claimed): from the moment a call has emitted its offer until its
\* answer is applied or its wait ends, makingOffer is true, for addTrack and
\* for removeTrack.
C2_MakingOfferCoversEveryOffer ==
  \A s \in Sessions : trk[s].pc = "await" => sess[s].makingOffer

\* C3: while a call waits for the answer to the offer it emitted, no remote
\* offer is applied to the peer connection, whatever the remote-offer handler
\* holds; and a well-formed answer read in that window is applied and ends
\* the wait without error.
C3_NoRemoteOfferInsideOfferWindow ==
  [][ \A s \in Sessions :
        trk[s].pc = "await" =>
          /\ pc'[s].sigState # "have-remote-offer"
          /\ pc'[s].pendingRemote = pc[s].pendingRemote
          /\ ( /\ Len(sess[s].sdpAnswerInCh) > 0
               /\ SdpWellFormed(Head(sess[s].sdpAnswerInCh))
               /\ trk'[s].pc # "await" /\ trk'[s].err # "timeout"
               /\ sess'[s].sdpAnswerInCh # sess[s].sdpAnswerInCh )
             => (pc'[s].sigState = "stable" /\ trk'[s].err = NULL)
    ]_vars

C3_Witness ==
  \E s \in Sessions :
    /\ trk[s].pc = "await"
    /\ sig[s].pc = "setRemote"
    /\ Len(sess[s].sdpAnswerInCh) > 0

\* The last step of an addTrack / removeTrack call on s: it returns.
Returns(s) == trk[s].pc \in {"unmark", "return"} /\ trk'[s].pc = "idle"

WaitErrors == {"offer", "answer", "timeout"}

C5_TimedOutRemoveTrackIsReversed ==
  [][ \A s \in Sessions :
        (Returns(s) /\ trk[s].op = "remove" /\ trk[s].err = "timeout")
        => /\ pc'[s].senders = trk[s].pre.senders
           /\ sess'[s].screenTrackSender = trk[s].pre.screenTrackSender
           /\ metrics' = trk[s].pre.metrics
    ]_vars

\* C5 (amended): when removeTrack returns after its wait timed out, the
\* removal stands: the sender found for the track carries no track, every
\* other sender is as before, screenTrackSender is cleared if it was that
\* sender and unchanged if not, and the metric of the track's kind is one
\* less than when the call started.
C5_TimedOutRemoveTrackStands ==
  [][ \A s \in Sessions :
        (Returns(s) /\ trk[s].op = "remove" /\ trk[s].err = "timeout")
        => LET i == trk[s].sender
               pre == trk[s].pre
           IN /\ i \in DOMAIN pre.senders
              /\ pre.senders[i].track = trk[s].track
              /\ pc'[s].senders = [pre.senders EXCEPT ![i].track = NULL]
              /\ sess'[s].screenTrackSender =
                   IF pre.screenTrackSender = i THEN 0
                   ELSE pre.screenTrackSender
              /\ metrics' = [pre.metrics EXCEPT ![Kind(trk[s].track)] = @ - 1]
    ]_vars

C5_Witness ==
  \E s \in Sessions :
    /\ trk[s].pc = "return"
    /\ trk[s].op = "remove"
    /\ trk[s].err = "timeout"
    /\ trk[s].pre.screenTrackSender = trk[s].sender

SpecFair == Spec /\ \A s \in SigSessions : WF_vars(TrackStep(s))

\* The senders of s that carry a video track.
VideoSenders(s) ==
  { i \in DOMAIN pc[s].senders :
      pc[s].senders[i].kind = "video" /\ pc[s].senders[i].track # NULL }

PumpReadsScreenOn(s) ==
  /\ PumpReads(s, "ScreenOn")
  /\ ParseScreenOn(Head(sendCh).data).ok

\* C8: after any sequence of ScreenOn and ScreenOff messages from the
\* sessions of a call, at most one session of the call holds the
\* screen-session slot.
C8_AtMostOneScreenSession == Cardinality(screenSession) <= 1

\* At the end of a run of four messages one session holds the slot and the
\* other one has asked for it while it was taken.
C8_Witness ==
  /\ screenSession = {"s2"}
  /\ sess["s1"].screenStreamID # ""
  /\ nSends = MaxCallSends

\* C9 (as claimed): a ScreenOn of a session dispatched while another session
\* of the call holds the screen-session slot leaves the slot with its holder
\* and leaves the sending session's screenStreamID unchanged.
C9_ContestedScreenOnLeavesStreamID ==
  [][ \A s \in Sessions :
        ( /\ PumpReadsScreenOn(s)
          /\ PumpStep
          /\ screenSession # {}
          /\ s \notin screenSession )
        => /\ screenSession' = screenSession
           /\ sess'[s].screenStreamID = sess[s].screenStreamID
    ]_vars

\* The contested ScreenOn is about to be dispatched.
C9_Witness ==
  \E s \in Sessions :
    /\ PumpReadsScreenOn(s)
    /\ screenSession # {}
    /\ s \notin screenSession
    /\ Head(sendCh).data # sess[s].screenStreamID

\* The fields of a session other than the two a Mute / Unmute may write.
MuteFrame(x) == [x EXCEPT !.outVoiceTrackEnabled = FALSE, !.vadMonitor = NULL]

\* C10: a Mute or Unmute dispatched by the pump for a session that has its
\* outbound voice track changes nothing but that session's
\* outVoiceTrackEnabled (Mute: false, Unmute: true) and, for Mute, resets
\* the VAD monitor when there is one; nothing is written to receiveCh or to
\* a signaling channel, and the peer connection (signaling state, senders),
\* makingOffer, the running track operation and the metrics are unchanged.
\* No other step writes outVoiceTrackEnabled, so after any number of
\* consecutive Mute messages it is false.
C10_MuteOnlyFlipsTheVoiceFlag ==
  [][ \A s \in Sessions :
        /\ \A type \in {"Mute", "Unmute"} :
             (PumpReads(s, type) /\ PumpStep) =>
               /\ UNCHANGED <<receiveCh, pc, trk, sig, metrics, screenSession>>
               /\ pump' = IdlePump
               /\ \A o \in Sessions \ {s} : sess'[o] = sess[o]
               /\ MuteFrame(sess'[s]) = MuteFrame(sess[s])
               /\ sess[s].outVoiceTrack # NULL =>
                    /\ sess'[s].outVoiceTrackEnabled = (type = "Unmute")
                    /\ sess'[s].vadMonitor =
                         IF type = "Mute" /\ sess[s].vadMonitor # NULL
                           THEN "reset" ELSE sess[s].vadMonitor
               /\ type = "Mute" => ~sess'[s].outVoiceTrackEnabled
        /\ sess'[s].outVoiceTrackEnabled # sess[s].outVoiceTrackEnabled
             => /\ PumpStep
                /\ PumpReads(s, "Mute") \/ PumpReads(s, "Unmute")
    ]_vars

\* A second consecutive Mute is about to be dispatched while the session's
\* call waits for the answer to the offer it emitted.
C10_Witness ==
  \E s \in Sessions :
    /\ PumpReads(s, "Mute")
    /\ sess[s].vadMonitor = "reset"
    /\ ~sess[s].outVoiceTrackEnabled
    /\ trk[s].pc = "await"
    /\ nSends = MaxSends

\* The channel of session s that PumpWrite is about to write to.
PumpTargetIn(ss) ==
  IF ParseSDP(pump.sdp).type = "offer"
    THEN ss[pump.sid].sdpOfferInCh
    ELSE ss[pump.sid].sdpAnswerInCh

PumpTarget == PumpTargetIn(sess)

\* C11: no channel write in Send, the pump or sendOffer blocks.  Each of
\* these steps can be taken whatever the channel holds; a Send on a full
\* sendCh leaves it as it is and returns an error; the pump drops an ICE
\* candidate, an offer or an answer whose channel is full and is back at
\* reading the next message; sendOffer on a full outbound channel leaves it
\* as it is and the call gets the error.  When there is room the value is
\* appended.
C11_NoChannelWriteBlocks ==
  /\ [](nSends < MaxSends => ENABLED SendICE)
  /\ []((pump.alive /\ pump.pc = "recv" /\ Len(sendCh) > 0) => ENABLED PumpRecv)
  /\ []((pump.alive /\ pump.pc = "write") => ENABLED PumpWrite)
  /\ [](\A s \in Sessions : trk[s].pc = "emit" => ENABLED SendOfferEmit(s))
  /\ [][ /\ nSends' # nSends =>
             IF Len(sendCh) >= MsgChCap
               THEN sendCh' = sendCh /\ sendErr' # NULL
               ELSE Len(sendCh') = Len(sendCh) + 1 /\ sendErr' = NULL
         /\ \A s \in Sessions :
              (PumpReads(s, "ICE") /\ PumpStep) =>
                /\ pump' = IdlePump
                /\ sess'[s].iceInCh =
                     IF Len(sess[s].iceInCh) >= SignalChCap
                       THEN sess[s].iceInCh
                       ELSE Append(sess[s].iceInCh, Head(sendCh).data)
         /\ (pump.pc = "write" /\ pump' # pump) =>
              /\ pump' = IdlePump
              /\ IF Len(PumpTarget) >= SignalChCap
                   THEN sess' = sess
                   ELSE PumpTargetIn(sess') = Append(PumpTarget, pump.sdp)
         /\ \A s \in Sessions :
              (trk[s].pc = "emit" /\ trk'[s].pc # "emit") =>
                IF Len(receiveCh) >= MsgChCap
                  THEN receiveCh' = receiveCh /\ trk'[s].err = "offer"
                  ELSE /\ Len(receiveCh') = Len(receiveCh) + 1
                       /\ trk'[s].pc = "await"
     ]_vars

\* The pump is about to write an answer to a full answer channel while a
\* call is about to emit its offer to a full outbound channel.
C11_Witness ==
  \E s \in Sessions :
    /\ pump.alive /\ pump.pc = "write" /\ pump.sid = s
    /\ Len(PumpTarget) = SignalChCap
    /\ trk[s].pc = "emit"
    /\ Len(receiveCh) = MsgChCap

\* C12: a Stop called while a session is registered has closed neither the
\* UDP mux nor the channels and has not gone past its wait as long as the
\* drain channel is not closed, and the drain channel is closed by the
\* teardown that unregisters the last session; a Stop called when no session
\* is registered never waits: its next step is the closing of the mux.
C12_StopWaitsForTheLastSession ==
  /\ []( (srv.waited /\ srv.drainCh # "closed") =>
            /\ srv.stop = "wait"
            /\ srv.udpMux # "closed"
            /\ ~srv.chClosed )
  /\ []( ~srv.waited => srv.stop # "wait" /\ srv.drainCh = "nil" )
  /\ [][ /\ (srv.stop = "idle" /\ srv'.stop # "idle") =>
             /\ srv'.waited = (srv.sessions # {})
             /\ srv'.stop = IF srv.sessions # {} THEN "wait" ELSE "mux"
             /\ srv'.udpMux = srv.udpMux /\ ~srv'.chClosed
         /\ (srv.drainCh # "closed" /\ srv'.drainCh = "closed") =>
             /\ Cardinality(srv.sessions) = 1
             /\ srv'.sessions = {}
         /\ srv.drainCh = "closed" => srv'.drainCh = "closed"
     ]_vars

\* Stop was called with two sessions registered, waited for both teardowns
\* and then closed the mux and the channels.
C12_Witness ==
  /\ srv.stop = "returned"
  /\ Cardinality(srv.waitedOn) = 2
  /\ srv.drainCh = "closed"
  /\ srv.udpMux = "closed"
  /\ srv.chClosed

\* What GetRate returns for a monitor that is not filled.
NotFilledRate == [ rate |-> -1, span |-> 0, impl |-> NULL ]

\* The pushes made so far span less than twice the sampling window.
PushesSpanLessThanTwoWindows ==
  rm.nPush = 0 \/ rm.lastPush - rm.firstPush < 2 * rm.m.samplingSize

\* C13: as long as the samples pushed so far span less than twice the
\* sampling window between the first and the last (in particular after one
\* push), the monitor is not filled and GetRate returns (-1, 0): both the
\* call made in this state and the last call made.
C13_RateUnknownUntilFilled ==
  PushesSpanLessThanTwoWindows =>
    /\ ~rm.m.filled
    /\ GetRate(rm.m, rm.clock) = {NotFilledRate}
    /\ rm.op = "GetRate" => rm.result = NotFilledRate

\* GetRate was called after several pushes that span one tick less than two
\* windows.
C13_Witness ==
  /\ rm.op = "GetRate"
  /\ rm.nPush >= 3
  /\ rm.lastPush - rm.firstPush = 2 * rm.m.samplingSize - 1
  /\ rm.clock > rm.lastPush

\* This step is a GetRate call: neither the monitor nor the clock changes.
GetRateStep == rm'.m = rm.m /\ rm'.clock = rm.clock /\ rm'.op = "GetRate"

\* The pushes made so far span at least twice the sampling window.
PushedOverTwoWindows ==
  rm.nPush > 0 /\ rm.lastPush - rm.firstPush >= 2 * rm.m.samplingSize

\* C14 (as claimed): once the pushes span at least twice the sampling window
\* W, every GetRate call returns something other than (-1, 0) with a span
\* between W and 2 W.
C14_SpanBetweenOneAndTwoWindows ==
  [][ (GetRateStep /\ PushedOverTwoWindows) =>
        /\ rm'.result # NotFilledRate
        /\ rm.m.samplingSize <= rm'.result.span
        /\ rm'.result.span <= 2 * rm.m.samplingSize
    ]_vars

\* GetRate is called on a filled monitor long after the last push.
C14_Witness ==
  /\ PushedOverTwoWindows
  /\ rm.m.filled
  /\ rm.clock - rm.lastPush > 2 * rm.m.samplingSize
  /\ rm.op = "GetRate"
  /\ rm.result.span = rm.clock - rm.lastPush

\* The capacity of the buffer and the slots (1-based) the cursor points at.
Capacity == Len(rm.m.timestamps)
CursorSlot(m) == (m.samplesPtr % Len(m.timestamps)) + 1
NewestSlot(m) == ((m.samplesPtr - 1) % Len(m.timestamps)) + 1

\* C15: once the monitor is filled (the clock never going back), the number
\* of stored samples does not change any more, a PushSample writes the slot
\* at cursor mod capacity and nothing else and advances the cursor by one,
\* the timestamp at cursor mod capacity is the oldest stored and the one at
\* (cursor - 1) mod capacity the newest.
C15_FilledBufferIsARing ==
  /\ []( rm.m.filled =>
           /\ Len(rm.m.samples) = Capacity
           /\ \A i \in 1..Capacity :
                /\ rm.m.timestamps[CursorSlot(rm.m)] <= rm.m.timestamps[i]
                /\ rm.m.timestamps[i] <= rm.m.timestamps[NewestSlot(rm.m)] )
  /\ [][ rm.m.filled =>
           /\ rm'.m.filled
           /\ Len(rm'.m.samples) = Len(rm.m.samples)
           /\ Len(rm'.m.timestamps) = Capacity
           /\ rm'.m # rm.m =>
                /\ rm'.m.samplesPtr = rm.m.samplesPtr + 1
                /\ rm'.m.timestamps =
                     [rm.m.timestamps EXCEPT ![CursorSlot(rm.m)] = rm.clock]
                /\ \A i \in 1..Capacity :
                     i # CursorSlot(rm.m) => rm'.m.samples[i] = rm.m.samples[i]
     ]_vars

\* The filled buffer has been written all the way round more than once.
C15_Witness ==
  /\ rm.m.filled
  /\ Capacity >= 2
  /\ rm.m.samplesPtr > 2 * Capacity
  /\ rm.m.timestamps[CursorSlot(rm.m)] < rm.m.timestamps[NewestSlot(rm.m)]

\* The stored samples from the newest backwards: the slot of the j-th and
\* its age at the current clock reading.
SlotBack(j) == ((rm.m.samplesPtr - j) % Capacity) + 1
Age(j) == rm.clock - rm.m.timestamps[SlotBack(j)]

\* How many samples GetRate counts: up to the first one whose age is at
\* least the window, or all of them.
Counted ==
  IF \E j \in 1..Capacity : Age(j) >= rm.m.samplingSize
    THEN CHOOSE j \in 1..Capacity :
           /\ Age(j) >= rm.m.samplingSize
           /\ \A k \in 1..(j - 1) : Age(k) < rm.m.samplingSize
    ELSE Capacity

RECURSIVE BytesBack(_)
BytesBack(j) == IF j = 0 THEN 0 ELSE rm.m.samples[SlotBack(j)] + BytesBack(j - 1)

\* C19: on a filled monitor GetRate adds up the sizes of the stored samples
\* from the newest backwards, each once, up to and including the first one
\* whose age is at least the window (all of them when there is none); the
\* span it returns is the age of the last sample counted, and the rate is
\* total * 8 / span rounded to the nearest integer, halves upwards.  (With a
\* span of zero the quotient is not a number and the rate is whatever the
\* conversion to int yields.)
C19_RateIsBytesOverSpan ==
  [][ (GetRateStep /\ rm.m.filled) =>
        /\ Cardinality({ SlotBack(j) : j \in 1..Counted }) = Counted
        /\ rm'.result.span = Age(Counted)
        /\ IF Age(Counted) > 0
             THEN /\ rm'.result.impl = NULL
                  /\ 2 * Age(Counted) * rm'.result.rate
                       <= 16 * BytesBack(Counted) + Age(Counted)
                  /\ 16 * BytesBack(Counted) + Age(Counted)
                       < 2 * Age(Counted) * (rm'.result.rate + 1)
             ELSE rm'.result.impl \in IntOfNonFinite
    ]_vars

\* GetRate has just been called on a filled monitor of four samples or more
\* and counted some of them, but not all.
C19_Witness ==
  /\ rm.m.filled
  /\ rm.op = "GetRate"
  /\ Capacity >= 4
  /\ Counted > 1 /\ Counted < Capacity
  /\ rm.result.span = Age(Counted)
  /\ rm.result.rate * Age(Counted) # 8 * BytesBack(Counted)

\* This step is a call of the named operation on the auth service.
AuthCall(name) == auth'.n = auth.n + 1 /\ auth'.op.name = name

\* The ids whose last successful Register has not been followed by a
\* successful Unregister.
Registered == DOMAIN auth.keys \ auth.gone

C17_ReRegistrationFails ==
  /\ [][ (AuthCall("Register") /\ auth'.op.id \in Registered) =>
           /\ auth'.op.err # NoErr
           /\ auth'.op.key = ""
           /\ auth'.store = auth.store
           /\ auth'.keys = auth.keys
     ]_vars
  /\ [](\A id \in Registered :
           Authenticate(auth.store, id, auth.keys[id]) = NoErr)

\* Register has just failed for a registered id, whose key is the one the
\* new registration would not have drawn.
C17_Witness ==
  /\ auth.op.name = "Register"
  /\ auth.op.err = Errorf("registration failed: already registered")
  /\ auth.op.id \in Registered
  /\ auth.keys[auth.op.id] = "k2"

\* C18 (as claimed): the pump keeps running whatever it has received: when
\* it is at the head of its loop and a message is waiting in sendCh, it can
\* take that message.
C18_PumpKeepsRunning ==
  (pump.pc = "recv" /\ Len(sendCh) > 0) => ENABLED PumpRecv

\* The pump has stopped and a valid message for an existing session waits.
C18_Witness ==
  /\ ~pump.alive
  /\ Len(sendCh) > 0
  /\ IsValid(Head(sendCh))
  /\ Head(sendCh).sid \in Sessions
  /\ Head(sendCh).type = "Unmute"

\* The number of PLIs among some packets.
RECURSIVE CountPLI(_)
CountPLI(pkts) ==
  IF pkts = << >> THEN 0
  ELSE (IF Head(pkts) = "PLI" THEN 1 ELSE 0) + CountPLI(Tail(pkts))

\* The call has a screen session that holds a remote screen track for the
\* sender's RID.
ScreenTrackHeld ==
  /\ rtcp.screenSession # "nil"
  /\ getRemoteScreenTrack(rtcp.remoteTracks, rtcp.rid) # "nil"

\* A PLI is waiting at the sender.
PLIWaiting ==
  /\ ~rtcp.closed
  /\ rtcp.inbox # << >>
  /\ CountPLI(Head(rtcp.inbox)) > 0

\* C20 (as claimed): every PLI that the sender holds while the call's screen
\* session has a remote track for the sender's RID is taken by the reader,
\* whatever came before; and the packets taken then cause one PLI each to be
\* written to the presenter, with the SSRC of that remote track.
C20_EveryPLIIsForwarded ==
  /\ []((PLIWaiting /\ ScreenTrackHeld) => ENABLED ReaderStep)
  /\ [][ (rtcp.inbox # << >> /\ rtcp'.inbox = Tail(rtcp.inbox)
            /\ ~rtcp'.closed /\ ScreenTrackHeld) =>
          LET n == CountPLI(Head(rtcp.inbox)) IN
          /\ Len(rtcp'.written) = Len(rtcp.written) + n
          /\ \A i \in 1..Len(rtcp.written) :
               rtcp'.written[i] = rtcp.written[i]
          /\ \A i \in (Len(rtcp.written) + 1)..Len(rtcp'.written) :
               rtcp'.written[i] =
                 [ to |-> rtcp.screenSession, type |-> "PLI",
                   MediaSSRC |-> SSRCOf(getRemoteScreenTrack(rtcp.remoteTracks,
                                                             rtcp.rid)) ]
     ]_vars

\* The reader returned on a PLI that found no screen session; the call now
\* has a screen session with the track of the sender's RID and a PLI waits
\* at the sender.
C20_Witness ==
  /\ rtcp.reader = "returned"
  /\ PLIWaiting
  /\ ScreenTrackHeld
  /\ rtcp.rid = "low"
  /\ rtcp.written = << >>

\* The session of an ID is where the pump looks for it: the entry of
\* Server.sessions names its group and call, the server's group map holds
\* its group, that group's call map its call, and that call's session map
\* the session.
ReachableByPump(sid) ==
  LET cfg == reg.sessions[sid]
      h   == reg.home[sid] IN
  /\ cfg = Cfg(sid)
  /\ reg.groups[cfg.GroupID] = h.g
  /\ reg.gobj[h.g].calls[cfg.CallID] = h.c
  /\ sid \in reg.cobj[h.c].sessions

\* C21 (as claimed): every session that addSession returned and that has not
\* been closed is reachable by the pump's lookup, under any interleaving of
\* addSession calls and teardowns.
C21_LiveSessionsAreReachable ==
  \A sid \in reg.live : ReachableByPump(sid)

\* addSession returned a session whose group the server's map no longer
\* holds: the pump's lookup of it ends with "group not found".
C21_Witness ==
  /\ "s2" \in reg.live
  /\ reg.add["s2"].pc = "idle"
  /\ Lookup(reg, "s2") = "group not found"

\* The call on s reads an answer from sdpAnswerInCh and the peer connection
\* takes it as the answer to the call's offer.
AppliesAnswer(s) ==
  /\ trk[s].pc = "await"
  /\ Len(sess[s].sdpAnswerInCh) > 0
  /\ sess'[s].sdpAnswerInCh = Tail(sess[s].sdpAnswerInCh)
  /\ pc[s].sigState = "have-local-offer"
  /\ pc'[s].sigState = "stable"

\* The answer at the head of sdpAnswerInCh was in the channel before the
\* call on s emitted its offer.
HeadAnswerIsStale(s) ==
  Len(sess[s].sdpAnswerInCh) > trk[s].fresh

\* C22 (as claimed): an answer that an addTrack or removeTrack call applies
\* was delivered by the pump after that call emitted its offer.
C22_AppliedAnswerFollowsTheOffer ==
  [][ \A s \in Sessions : AppliesAnswer(s) => ~HeadAnswerIsStale(s) ]_vars

\* A call has emitted its offer and waits while sdpAnswerInCh holds an
\* answer that was delivered before the call started.
C22_Witness ==
  \E s \in Sessions :
    /\ trk[s].pc = "await"
    /\ pc[s].sigState = "have-local-offer"
    /\ Len(sess[s].sdpAnswerInCh) > 0
    /\ SdpWellFormed(Head(sess[s].sdpAnswerInCh))
    /\ HeadAnswerIsStale(s)

\* C23 (as claimed): when an addTrack or removeTrack call returns because the
\* signaling timeout fired, the session is not in signaling conflict:
\* makingOffer is false and the signaling state is stable.
C23_NoConflictAfterTimeout ==
  [][ \A s \in Sessions :
        (Returns(s) /\ trk[s].err = "timeout") =>
          /\ ~hasSignalingConflict(s)'
          /\ ~sess'[s].makingOffer
          /\ pc'[s].sigState = "stable" ]_vars

\* A call whose wait timed out is about to return while the peer connection
\* still has its offer pending.
C23_Witness ==
  \E s \in Sessions :
    /\ trk[s].pc \in {"unmark", "return"}
    /\ trk[s].err = "timeout"
    /\ pc[s].sigState = "have-local-offer"

\* C24 (as claimed): under any interleaving of Send and Stop, a Send call
\* returns (nil or an error): it never writes to sendCh once Stop has closed
\* it, which would panic.
C24_SendNeverPanics ==
  sendErr # PanicClosedChannel

\* Stop waited for the sessions to drain, closed the channels and returned,
\* and a Send call was made after that.
C24_Witness ==
  /\ srv.stop = "returned"
  /\ srv.chClosed
  /\ srv.waited
  /\ nSends > 0
  /\ sendErr = PanicClosedChannel

====
